---- MODULE Spec2Model ----
(***************************************************************************)
(* SecurOps report glue: scripts/ai-auto-fix.py (the AI-fix flow) and      *)
(* scripts/generate-report.py (the dashboard flow and the enrollment       *)
(* store).  A run reads the scanner reports, normalizes raw records into   *)
(* findings, ranks or caps them, and writes its artifacts.                 *)
(*                                                                         *)
(* A raw record is modelled by the fields that decide control flow: the    *)
(* tool-native severity and the shape (absent / null / object, empty /     *)
(* non-empty list) of the nested values the extraction code dereferences.  *)
(* A finding keeps tool, severity and src = <<target, index>>, the         *)
(* position of the raw record it was built from.                           *)
(***************************************************************************)
EXTENDS Integers, Sequences, FiniteSets, TLC

VARIABLES
    pc,           \* position of the running script
    reports,      \* the four report files under reports/
    api_key,      \* ANTHROPIC_API_KEY is set
    gh_token,     \* GITHUB_TOKEN and REPO are both set
    findings,     \* the list named findings in either script
    merged,       \* history: findings as appended, before the sort / the cap
    exc,          \* the uncaught exception that ended the run, or "none"
    fwf,          \* findings_with_fixes of main()
    ai_calls,     \* calls made to client.messages.create
    ai_failures,  \* how many of them raised
    posts,        \* calls made to urllib.request.urlopen
    issue_sent,   \* the body of the issue request that was sent
    publish,      \* how create_github_issue ended
    report_file,  \* content of ai-fix-report.md
    rendered,     \* what the findings section of security-dashboard.html shows
    summary_file, \* security-summary.md has been written
    enrollment,   \* content of enrollment-tracking.json
    clock,        \* datetime.now(): strictly increasing from run to run
    calls,        \* update_enrollment calls made so far
    prev_scans,   \* history: data["scans"] on entry to the last update_enrollment
    last_run,     \* history: the snapshot the last update_enrollment appended
    runs_by,      \* history: how many runs each actor has made since the empty store
    disk          \* per output file: what the running script has done to it

vars == <<pc, reports, api_key, gh_token, findings, merged, exc, fwf, ai_calls,
          ai_failures, posts, issue_sent, publish, report_file, rendered,
          summary_file, enrollment, clock, calls, prev_scans, last_run,
          runs_by, disk>>

(***************************************************************************)
(* Program constants                                                       *)
(***************************************************************************)
MAX_FIXES_PER_RUN  == 10
FIX_SAST_CAP       == 5
FIX_SCA_TARGET_CAP == 3
FIX_SCA_VULN_CAP   == 3
FIX_IAC_CAP        == 3
FIX_DAST_CAP       == 3
DASH_SAST_CAP      == 20
DASH_SCA_VULN_CAP  == 10
DASH_DAST_CAP      == 10
DASH_IAC_CAP       == 10
KEEP_SCANS         == 500
UNRANKED           == 99

(***************************************************************************)
(* Bounds of the model                                                     *)
(***************************************************************************)
MaxMixed      == 2   \* raw records, over all tools, of a mixed input
LongExtra     == 1   \* a long report holds this many records more than the cap on it
MaxAiFailures == 1   \* AI calls that may fail in one run
MaxRuns       == 3   \* update_enrollment calls made on top of the stored history

Severities == {"CRITICAL", "HIGH", "MEDIUM", "LOW"}

\* JSON values that are not the string the code expects
ABSENT == "<absent>"    \* the key is missing
NULL   == "<null>"      \* the key is present with value null

Min(a, b) == IF a <= b THEN a ELSE b
Take(s, n) == SubSeq(s, 1, Min(n, Len(s)))
LastN(s, n) == SubSeq(s, Len(s) - Min(n, Len(s)) + 1, Len(s))

RECURSIVE Flatten(_)
Flatten(ss) == IF ss = <<>> THEN <<>> ELSE Head(ss) \o Flatten(Tail(ss))

(***************************************************************************)
(* Raw records                                                             *)
(***************************************************************************)
SemgrepRecs ==
    { [extra |-> "obj",    severity |-> "ERROR"],
      [extra |-> "obj",    severity |-> "WARNING"],
      [extra |-> "obj",    severity |-> "INFO"],
      [extra |-> "absent", severity |-> ABSENT],
      [extra |-> "null",   severity |-> ABSENT] }

TrivyVulns ==
    { [Severity |-> "CRITICAL"], [Severity |-> "HIGH"], [Severity |-> "MEDIUM"] }

CheckovRecs ==
    { [severity |-> "CRITICAL", file_line_range |-> "ok",    check |-> "obj"],
      [severity |-> "HIGH",     file_line_range |-> "ok",    check |-> "obj"],
      [severity |-> NULL,       file_line_range |-> "ok",    check |-> "obj"],
      [severity |-> "CRITICAL", file_line_range |-> "empty", check |-> "obj"],
      [severity |-> "CRITICAL", file_line_range |-> "ok",    check |-> "null"] }

NucleiRecs ==
    { [info |-> "obj", severity |-> "critical"],
      [info |-> "obj", severity |-> "high"],
      [info |-> "obj", severity |-> "HIGH"],
      [info |-> "obj", severity |-> "Critical"],
      [info |-> "obj", severity |-> "medium"],
      [info |-> "obj", severity |-> "info"],
      [info |-> "obj", severity |-> NULL] }

\* str.upper() on the severity strings that occur
Upper_identity(s) == s
Upper(s) ==
    CASE s = "critical" -> "CRITICAL"
      [] s = "Critical" -> "CRITICAL"
      [] s = "high"     -> "HIGH"
      [] s = "medium"   -> "MEDIUM"
      [] s = "low"      -> "LOW"
      [] s = "info"     -> "INFO"
      [] OTHER          -> s

(***************************************************************************)
(* Report files and their loaders                                          *)
(***************************************************************************)
NoFile == [file |-> "missing", results |-> <<>>]
File(recs) == [file |-> "ok", results |-> recs]

\* load_report / load_json / load_jsonl followed by the .get(..., []) of the
\* caller: a missing file yields {} or [], hence no raw record.
LoadResults(rep) == IF rep.file = "ok" THEN rep.results ELSE <<>>

(***************************************************************************)
(* One iteration of an extraction loop: the record is kept as a finding,   *)
(* skipped, or the expression raises.                                      *)
(***************************************************************************)
NoFinding == [tool |-> "", severity |-> "", src |-> <<0, 0>>]
Keep(tool, sev, t, i) ==
    [kind |-> "keep", f |-> [tool |-> tool, severity |-> sev, src |-> <<t, i>>],
     exc |-> "none"]
Skip == [kind |-> "skip", f |-> NoFinding, exc |-> "none"]
Raise(e) == [kind |-> "raise", f |-> NoFinding, exc |-> e]

\* a loop that walks the records from the last to the first
RunLoop_backwards(outs) ==
    LET R    == {i \in DOMAIN outs : outs[i].kind = "raise"}
        kept == SelectSeq(outs, LAMBDA o : o.kind = "keep")
    IN  [appended |-> [i \in 1..Len(kept) |-> kept[Len(kept) + 1 - i].f],
         exc      |-> IF R = {} THEN "none"
                      ELSE outs[CHOOSE i \in R : \A j \in R : i >= j].exc]

\* A for loop over outs: the findings appended before the first iteration
\* that raises, and the exception that ended the loop (or "none").
RunLoop(outs) ==
    LET R    == {i \in DOMAIN outs : outs[i].kind = "raise"}
        stop == IF R = {} THEN Len(outs) + 1
                ELSE CHOOSE i \in R : \A j \in R : i <= j
        kept == SelectSeq(SubSeq(outs, 1, stop - 1), LAMBDA o : o.kind = "keep")
    IN  [appended |-> [i \in 1..Len(kept) |-> kept[i].f],
         exc      |-> IF R = {} THEN "none" ELSE outs[stop].exc]

(***************************************************************************)
(* collect_findings of ai-auto-fix.py                                      *)
(***************************************************************************)
\* r.get("extra", {}).get("severity")
SemgrepNative(r, default) ==
    IF r.extra = "absent" \/ r.severity = ABSENT THEN default ELSE r.severity

FixSastStep(r, i) ==
    IF r.extra = "null" THEN Raise("AttributeError")
    ELSE IF SemgrepNative(r, NULL) = "ERROR"
         THEN Keep("Semgrep SAST", "HIGH", 0, i)
         ELSE Skip

FixSastOuts(recs) ==
    LET rs == Take(recs, FIX_SAST_CAP)
    IN  [i \in 1..Len(rs) |-> FixSastStep(rs[i], i)]

FixScaStep(v, t, i) ==
    IF v.Severity \in {"CRITICAL", "HIGH"}
    THEN Keep("Trivy SCA", v.Severity, t, i)
    ELSE Skip

\* a loop over every target of the report
FixScaOuts_every_target(results) ==
    Flatten([t \in 1..Len(results) |->
        LET vs == Take(results[t].Vulnerabilities, FIX_SCA_VULN_CAP)
        IN  [i \in 1..Len(vs) |-> FixScaStep(vs[i], t, i)]])

FixScaOuts(results) ==
    LET ts == Take(results, FIX_SCA_TARGET_CAP)
    IN  Flatten([t \in 1..Len(ts) |->
            LET vs == Take(ts[t].Vulnerabilities, FIX_SCA_VULN_CAP)
            IN  [i \in 1..Len(vs) |-> FixScaStep(vs[i], t, i)]])

FixIacStep(c, i) ==
    IF c.severity = "CRITICAL"
    THEN IF c.check = "null" THEN Raise("AttributeError")
         ELSE IF c.file_line_range = "empty" THEN Raise("IndexError")
         ELSE Keep("Checkov IaC", "CRITICAL", 0, i)
    ELSE Skip

FixIacOuts(recs) ==
    LET rs == Take(recs, FIX_IAC_CAP)
    IN  [i \in 1..Len(rs) |-> FixIacStep(rs[i], i)]

\* a test that upper-cases the severity before comparing
FixDastStep_any_case(r, i) ==
    IF r.info = "null" THEN Raise("AttributeError")
    ELSE IF r.info = "obj" /\ Upper(r.severity) \in {"CRITICAL", "HIGH"}
         THEN Keep("Nuclei DAST", Upper(r.severity), 0, i)
         ELSE Skip

FixDastStep(r, i) ==
    IF r.info = "null" THEN Raise("AttributeError")
    ELSE IF r.info = "obj" /\ r.severity \in {"critical", "high"}
         THEN Keep("Nuclei DAST", Upper(r.severity), 0, i)
         ELSE Skip

FixDastOuts(rows) ==
    LET rs == Take(rows, FIX_DAST_CAP)
    IN  [i \in 1..Len(rs) |-> FixDastStep(rs[i], i)]

\* return findings[:MAX_FIXES_PER_RUN]
ReturnFindings_uncapped(fs) == fs
ReturnFindings(fs) == Take(fs, MAX_FIXES_PER_RUN)

(***************************************************************************)
(* The findings list of generate-report.py                                 *)
(***************************************************************************)
\* "HIGH" if sev == "ERROR" else "MEDIUM"
DashSastSeverity_swapped(sev) == IF sev = "ERROR" THEN "MEDIUM" ELSE "HIGH"
DashSastSeverity(sev) == IF sev = "ERROR" THEN "HIGH" ELSE "MEDIUM"

DashSastStep(r, i) ==
    IF r.extra = "null" THEN Raise("AttributeError")
    ELSE Keep("Semgrep", DashSastSeverity(SemgrepNative(r, "WARNING")), 0, i)

DashSastOuts(recs) ==
    LET rs == Take(recs, DASH_SAST_CAP)
    IN  [i \in 1..Len(rs) |-> DashSastStep(rs[i], i)]

DashScaStep(v, t, i) ==
    IF v.Severity \in {"CRITICAL", "HIGH"}
    THEN Keep("Trivy", v.Severity, t, i)
    ELSE Skip

DashScaOuts(results) ==
    Flatten([t \in 1..Len(results) |->
        LET vs == Take(results[t].Vulnerabilities, DASH_SCA_VULN_CAP)
        IN  [i \in 1..Len(vs) |-> DashScaStep(vs[i], t, i)]])

DashDastStep(r, i) ==
    IF r.info = "null" THEN Raise("AttributeError")
    ELSE LET raw == IF r.info = "absent" \/ r.severity = ABSENT
                    THEN "info" ELSE r.severity
         IN  IF raw = NULL THEN Raise("AttributeError")   \* None.upper()
             ELSE IF Upper(raw) \in {"CRITICAL", "HIGH", "MEDIUM"}
                  THEN Keep("Nuclei", Upper(raw), 0, i)
                  ELSE Skip

DashDastOuts(rows) ==
    LET rs == Take(rows, DASH_DAST_CAP)
    IN  [i \in 1..Len(rs) |-> DashDastStep(rs[i], i)]

\* an infrastructure block that feeds a card and appends nothing
DashIacStep_card_only(c, i) == Skip

DashIacStep(c, i) ==
    LET sev == IF c.severity = ABSENT THEN "MEDIUM" ELSE c.severity
    IN  IF sev \in {"CRITICAL", "HIGH"}
        THEN IF c.check = "null" THEN Raise("AttributeError")
             ELSE IF c.file_line_range = "empty" THEN Raise("IndexError")
             ELSE Keep("Checkov", sev, 0, i)
        ELSE Skip

DashIacOuts(recs) ==
    LET rs == Take(recs, DASH_IAC_CAP)
    IN  [i \in 1..Len(rs) |-> DashIacStep(rs[i], i)]

\* SEV_ORDER.get(x["severity"], 99)
SevRank(sev) ==
    CASE sev = "CRITICAL" -> 0
      [] sev = "HIGH"     -> 1
      [] sev = "MEDIUM"   -> 2
      [] sev = "LOW"      -> 3
      [] OTHER            -> UNRANKED

\* list.sort(key=...) is a stable merge sort.  Merging two ranked runs a
\* (the earlier elements) and b: on equal keys the element of a goes first.
MergeByRank(a, b) ==
    LET pa == [i \in DOMAIN a |->
                 i + Cardinality({j \in DOMAIN b :
                        SevRank(b[j].severity) < SevRank(a[i].severity)})]
        pb == [j \in DOMAIN b |->
                 j + Cardinality({i \in DOMAIN a :
                        SevRank(a[i].severity) <= SevRank(b[j].severity)})]
    IN  [k \in 1..(Len(a) + Len(b)) |->
            IF \E i \in DOMAIN a : pa[i] = k
            THEN a[CHOOSE i \in DOMAIN a : pa[i] = k]
            ELSE b[CHOOSE j \in DOMAIN b : pb[j] = k]]

MergeLaterFirst(a, b) ==
    LET pa == [i \in DOMAIN a |->
                 i + Cardinality({j \in DOMAIN b :
                        SevRank(b[j].severity) <= SevRank(a[i].severity)})]
        pb == [j \in DOMAIN b |->
                 j + Cardinality({i \in DOMAIN a :
                        SevRank(a[i].severity) < SevRank(b[j].severity)})]
    IN  [k \in 1..(Len(a) + Len(b)) |->
            IF \E i \in DOMAIN a : pa[i] = k
            THEN a[CHOOSE i \in DOMAIN a : pa[i] = k]
            ELSE b[CHOOSE j \in DOMAIN b : pb[j] = k]]

RECURSIVE SortBySeverity_unstable(_)
SortBySeverity_unstable(fs) ==
    IF Len(fs) <= 1 THEN fs
    ELSE LET mid == Len(fs) \div 2
         IN  SubSeq(MergeLaterFirst(SortBySeverity_unstable(SubSeq(fs, 1, mid)),
                        SortBySeverity_unstable(SubSeq(fs, mid + 1, Len(fs)))),
                    1, Len(fs))

RECURSIVE SortBySeverity(_)
SortBySeverity(fs) ==
    IF Len(fs) <= 1 THEN fs
    ELSE LET mid == Len(fs) \div 2
         IN  SubSeq(MergeByRank(SortBySeverity(SubSeq(fs, 1, mid)),
                                SortBySeverity(SubSeq(fs, mid + 1, Len(fs)))),
                    1, Len(fs))

\* The findings section of HTML_TEMPLATE: the badge, then the table or the
\* empty-state div.
NotRendered == [branch |-> "none", badge |-> 0, rows |-> <<>>]
RenderFindings_table(fs) == [branch |-> "table", badge |-> Len(fs), rows |-> fs]
RenderFindings(fs) ==
    [branch |-> IF Len(fs) > 0 THEN "table" ELSE "empty",
     badge  |-> Len(fs),
     rows   |-> fs]

(***************************************************************************)
(* The AI-fix report and the issue body                                    *)
(***************************************************************************)
FAIL_MARKER == "AI fix generation failed"
FIX_TEXT    == "response text"

NoDoc == [doc |-> "none", items |-> <<>>]
\* the markdown of save_fix_report
FixReport(items) == [doc |-> "report", items |-> items]
\* body of create_github_issue
IssueBody(items) == [doc |-> "issue", items |-> items]

\* the except branch of create_github_issue: open("ai-fix-report.md", "w")
FallbackWrite_none(body, old) == old
FallbackWrite(body, old) == body

(***************************************************************************)
(* Enrollment store                                                        *)
(***************************************************************************)
Actors == {"unknown", "alice", "bob"}
RunEnvs ==
    { [actor |-> a, gate |-> "PASSED", total_issues |-> 0] : a \in Actors } \cup
    { [actor |-> a, gate |-> "FAILED", total_issues |-> 2] : a \in Actors }

\* data["scans"][-500:]
KeepLast_first(scans) == Take(scans, KEEP_SCANS)
KeepLast(scans) == LastN(scans, KEEP_SCANS)

\* round(x, 1) of x = num / den * 100, in tenths: round-half-even.  The ties
\* reached (16 scans) are exact in binary floating point.
Round1_floor(num, den) == (1000 * num) \div den
Round1(num, den) ==
    LET q == (1000 * num) \div den
        r == (1000 * num) % den
    IN  IF 2 * r < den THEN q
        ELSE IF 2 * r > den THEN q + 1
        ELSE IF q % 2 = 0 THEN q ELSE q + 1

\* sum(s.get("total_issues", 0) for s in scans[lo..hi]), by halves
RECURSIVE SumIssues(_, _, _)
SumIssues(scans, lo, hi) ==
    IF lo > hi THEN 0
    ELSE IF lo = hi THEN scans[lo].total_issues
    ELSE LET mid == (lo + hi) \div 2
         IN  SumIssues(scans, lo, mid) + SumIssues(scans, mid + 1, hi)

\* the stats block of update_enrollment; pass_rate is held in tenths
Stats(scans, enrolled) ==
    LET total_scans  == Len(scans)
        passed_scans == Cardinality({i \in 1..Len(scans) : scans[i].gate = "PASSED"})
    IN  [total_scans        |-> total_scans,
         passed_scans       |-> passed_scans,
         failed_scans       |-> total_scans - passed_scans,
         pass_rate          |-> IF total_scans # 0
                                THEN Round1(passed_scans, total_scans) ELSE 0,
         total_enrolled     |-> Cardinality(DOMAIN enrolled),
         total_issues_found |-> SumIssues(scans, 1, Len(scans))]

Snapshot(env, now) ==
    [actor |-> env.actor, gate |-> env.gate, total_issues |-> env.total_issues,
     timestamp |-> now]

\* a registration without the test on ACTOR
Register_every_actor(enrolled, env, now) ==
    LET dev == IF env.actor \in DOMAIN enrolled THEN enrolled[env.actor]
               ELSE [first_seen |-> now, scan_count |-> 0,
                     issues_found |-> 0, last_scan |-> now]
    IN  [a \in DOMAIN enrolled \cup {env.actor} |->
            IF a = env.actor
            THEN [dev EXCEPT !.scan_count   = @ + 1,
                             !.issues_found = @ + env.total_issues,
                             !.last_scan    = now]
            ELSE enrolled[a]]

Register(enrolled, env, now) ==
    IF env.actor # "" /\ env.actor # "unknown"
    THEN LET dev == IF env.actor \in DOMAIN enrolled THEN enrolled[env.actor]
                    ELSE [first_seen |-> now, scan_count |-> 0,
                          issues_found |-> 0, last_scan |-> now]
         IN  [a \in DOMAIN enrolled \cup {env.actor} |->
                 IF a = env.actor
                 THEN [dev EXCEPT !.scan_count   = @ + 1,
                                  !.issues_found = @ + env.total_issues,
                                  !.last_scan    = now]
                 ELSE enrolled[a]]
    ELSE enrolled

update_enrollment(data, env, now) ==
    LET enrolled == Register(data.enrolled, env, now)
        scans    == KeepLast(Append(data.scans, Snapshot(env, now)))
    IN  [enrolled |-> enrolled, scans |-> scans, stats |-> Stats(scans, enrolled)]

\* load_enrollment when the file is missing; the empty stats object is held
\* as the all-zero block
DefaultStore ==
    [enrolled |-> <<>>, scans |-> <<>>,
     stats |-> [total_scans |-> 0, passed_scans |-> 0, failed_scans |-> 0,
                pass_rate |-> 0, total_enrolled |-> 0, total_issues_found |-> 0]]

\* The store that n earlier runs left behind, run i made by EnvAt(i) at time i.
EnvAt(i) ==
    [actor        |-> IF i % 3 = 0 THEN "unknown" ELSE IF i % 3 = 1 THEN "alice" ELSE "bob",
     gate         |-> IF i % 4 = 0 THEN "FAILED" ELSE "PASSED",
     total_issues |-> IF i % 4 = 0 THEN 2 ELSE 0]

StoreAfter(n) ==
    IF n = 0 THEN DefaultStore
    ELSE LET kept  == Min(n, KEEP_SCANS)
             scans == [i \in 1..kept |-> Snapshot(EnvAt(n - kept + i), n - kept + i)]
             who   == {EnvAt(i).actor : i \in 1..n} \ {"unknown"}
             runs(a) == {i \in 1..n : EnvAt(i).actor = a}
             enrolled == [a \in who |->
                 [first_seen   |-> CHOOSE i \in runs(a) : \A j \in runs(a) : i <= j,
                  scan_count   |-> Cardinality(runs(a)),
                  issues_found |-> 2 * Cardinality({i \in runs(a) : EnvAt(i).gate = "FAILED"}),
                  last_scan    |-> CHOOSE i \in runs(a) : \A j \in runs(a) : i >= j]]
         IN  [enrolled |-> enrolled, scans |-> scans, stats |-> Stats(scans, enrolled)]

\* how many of those n runs each actor made
RunsAfter(n) == [a \in Actors |-> Cardinality({i \in 1..n : EnvAt(i).actor = a})]

PriorRuns == {0, 15, KEEP_SCANS - 1, KEEP_SCANS, KEEP_SCANS + LongExtra}

(***************************************************************************)
(* Inputs: the report files a run may find                                 *)
(***************************************************************************)
SeqsFrom(S, lo, hi) == UNION {[1..k -> S] : k \in lo..hi}
Uniform(r, n) == [i \in 1..n |-> r]

ToolFiles(S, n) == {NoFile} \cup {File(rs) : rs \in SeqsFrom(S, 1, n)}

\* the vulnerabilities vs of a Trivy report, under one target or one target each
TrivyFile(vs, split) ==
    IF vs = <<>> THEN NoFile
    ELSE IF split THEN File([t \in 1..Len(vs) |-> [Vulnerabilities |-> <<vs[t]>>]])
    ELSE File(<<[Vulnerabilities |-> vs]>>)

\* at most MaxMixed raw records over the four tools, of every kind
MixedReports ==
    { [sast |-> a, sca |-> TrivyFile(b, split), iac |-> c, dast |-> d] :
        <<a, b, split, c, d>> \in
            UNION { UNION { UNION {
                { <<a, b, split, c, d>> :
                    split \in BOOLEAN,
                    d \in ToolFiles(NucleiRecs,
                            MaxMixed - Len(a.results) - Len(b) - Len(c.results)) }
                : c \in ToolFiles(CheckovRecs, MaxMixed - Len(a.results) - Len(b)) }
                : b \in SeqsFrom(TrivyVulns, 0, MaxMixed - Len(a.results)) }
                : a \in ToolFiles(SemgrepRecs, MaxMixed) } }

\* every tool either without a file or with more well-formed records than the
\* caps on it take
LongReports(sastN, targetN, vulnN, iacN, dastN) ==
    { [sast |-> a, sca |-> b, iac |-> c, dast |-> d] :
        a \in {NoFile} \cup
              { File(Uniform([extra |-> "obj", severity |-> s], sastN)) :
                    s \in {"ERROR", "WARNING"} },
        b \in {NoFile} \cup
              { File(Uniform([Vulnerabilities |-> Uniform([Severity |-> s], vulnN)],
                             targetN)) : s \in {"CRITICAL", "HIGH"} },
        c \in {NoFile, File(Uniform([severity |-> "CRITICAL", file_line_range |-> "ok",
                                     check |-> "obj"], iacN))},
        d \in {NoFile} \cup
              { File(Uniform([info |-> "obj", severity |-> s], dastN)) :
                    s \in {"critical", "high"} } }

\* every file present and holding no record
EmptyReports ==
    [sast |-> File(<<>>), sca |-> File(<<>>), iac |-> File(<<>>), dast |-> File(<<>>)]

FixInputs ==
    MixedReports \cup {EmptyReports} \cup
    LongReports(FIX_SAST_CAP + LongExtra, FIX_SCA_TARGET_CAP + LongExtra,
                FIX_SCA_VULN_CAP + LongExtra, FIX_IAC_CAP + LongExtra,
                FIX_DAST_CAP + LongExtra)

DashInputs ==
    MixedReports \cup {EmptyReports} \cup
    LongReports(DASH_SAST_CAP + LongExtra, FIX_SCA_TARGET_CAP + LongExtra,
                DASH_SCA_VULN_CAP + LongExtra, DASH_IAC_CAP + LongExtra,
                DASH_DAST_CAP + LongExtra)

NoReports ==
    /\ reports.sast.file = "missing" /\ reports.sca.file = "missing"
    /\ reports.iac.file = "missing"  /\ reports.dast.file = "missing"

(***************************************************************************)
(* Initial states                                                          *)
(***************************************************************************)
\* The output files, and what a run has done to each: "previous" is the
\* content the run found (left by the run before it, or no file), "partial"
\* a file open(path, "w") has truncated and whose write did not finish,
\* "new" a file the run wrote and closed.
Artifacts == {"enrollment-tracking.json", "security-dashboard.html",
              "security-summary.md", "ai-fix-report.md"}
Untouched == [f \in Artifacts |-> "previous"]

\* open(f, "w"): the file is truncated at once, the content follows
OpenForWrite(files, f) == [files EXCEPT ![f] = "partial"]

\* the with block ends: the file holds the whole new content
CloseWritten(files, f) == [files EXCEPT ![f] = "new"]

\* with open(f, "w") as h: h.write(...)
WriteFile(files, f) == CloseWritten(OpenForWrite(files, f), f)

NoRun == [actor |-> "", gate |-> "", total_issues |-> 0, timestamp |-> 0]

InitRun ==
    /\ findings = <<>> /\ merged = <<>> /\ exc = "none"
    /\ fwf = <<>> /\ ai_calls = 0 /\ ai_failures = 0
    /\ posts = 0 /\ issue_sent = NoDoc /\ publish = "none"
    /\ report_file = NoDoc /\ rendered = NotRendered /\ summary_file = FALSE
    /\ calls = 0 /\ prev_scans = <<>> /\ last_run = NoRun
    /\ disk = Untouched

\* python scripts/ai-auto-fix.py
InitFix ==
    /\ pc = "fix_main"
    /\ reports \in FixInputs
    /\ api_key \in BOOLEAN /\ gh_token \in BOOLEAN
    /\ enrollment = DefaultStore /\ clock = 1
    /\ runs_by = RunsAfter(0)
    /\ InitRun

\* python scripts/generate-report.py, first run of a repository
InitDash ==
    /\ pc = "dash_sast"
    /\ reports \in DashInputs
    /\ api_key = FALSE /\ gh_token = FALSE
    /\ enrollment = DefaultStore /\ clock = 1
    /\ runs_by = RunsAfter(0)
    /\ InitRun

\* the enrollment step of later runs, on the store earlier runs left behind
InitEnroll ==
    /\ pc = "enroll"
    /\ reports = [sast |-> NoFile, sca |-> NoFile, iac |-> NoFile, dast |-> NoFile]
    /\ api_key = FALSE /\ gh_token = FALSE
    /\ \E n \in PriorRuns :
        enrollment = StoreAfter(n) /\ clock = n + 1 /\ runs_by = RunsAfter(n)
    /\ InitRun

Init == InitFix \/ InitDash \/ InitEnroll

(***************************************************************************)
(* ai-auto-fix.py                                                          *)
(***************************************************************************)
fixVars  == <<fwf, ai_calls, ai_failures, posts, issue_sent, publish, report_file>>
dashVars == <<rendered, summary_file>>
enrVars  == <<enrollment, clock, calls, prev_scans, last_run, runs_by>>
envVars  == <<reports, api_key, gh_token>>

\* an extraction block: the loop appends, then falls through or raises
Block(res, next) ==
    /\ findings' = findings \o res.appended
    /\ exc' = res.exc
    /\ pc' = IF res.exc = "none" THEN next ELSE "raised"
    /\ UNCHANGED <<merged, fixVars, dashVars, enrVars, envVars, disk>>

\* main() up to the client construction
FixMain ==
    /\ pc = "fix_main"
    /\ pc' = IF api_key THEN "fix_sast" ELSE "fix_done"
    /\ UNCHANGED <<findings, merged, exc, fixVars, dashVars, enrVars, envVars, disk>>

FixSast ==
    /\ pc = "fix_sast"
    /\ Block(RunLoop(FixSastOuts(LoadResults(reports.sast))), "fix_sca")

FixSca ==
    /\ pc = "fix_sca"
    /\ Block(RunLoop(FixScaOuts(LoadResults(reports.sca))), "fix_iac")

FixIac ==
    /\ pc = "fix_iac"
    /\ Block(RunLoop(FixIacOuts(LoadResults(reports.iac))), "fix_dast")

FixDast ==
    /\ pc = "fix_dast"
    /\ Block(RunLoop(FixDastOuts(LoadResults(reports.dast))), "fix_return")

\* return findings[:MAX_FIXES_PER_RUN], and main()'s "if not findings: return"
FixReturn ==
    /\ pc = "fix_return"
    /\ merged' = findings
    /\ findings' = ReturnFindings(findings)
    /\ pc' = IF findings' = <<>> THEN "fix_done" ELSE "fix_generate"
    /\ UNCHANGED <<exc, fixVars, dashVars, enrVars, envVars, disk>>

\* generate_fix: the response text, or the marker the except clause returns
generate_fix(ok) == IF ok THEN FIX_TEXT ELSE FAIL_MARKER

\* a loop that drops the finding whose call failed
AppendFix_skip_failed(list, finding, fix) ==
    IF fix = FAIL_MARKER THEN list ELSE Append(list, [finding |-> finding, fix |-> fix])

\* findings_with_fixes.append((finding, fix))
AppendFix(list, finding, fix) == Append(list, [finding |-> finding, fix |-> fix])

\* one iteration of main()'s loop: generate_fix, then the append
FixGenerate ==
    /\ pc = "fix_generate"
    /\ \E ok \in BOOLEAN :
        /\ ok \/ ai_failures < MaxAiFailures
        /\ fwf' = AppendFix(fwf, findings[ai_calls + 1], generate_fix(ok))
        /\ ai_failures' = IF ok THEN ai_failures ELSE ai_failures + 1
    /\ ai_calls' = ai_calls + 1
    /\ pc' = IF ai_calls' = Len(findings) THEN "fix_save" ELSE "fix_generate"
    /\ UNCHANGED <<findings, merged, exc, posts, issue_sent, publish, report_file,
                   dashVars, enrVars, envVars, disk>>

FixSave ==
    /\ pc = "fix_save"
    /\ report_file' = FixReport(fwf)
    /\ disk' = WriteFile(disk, "ai-fix-report.md")
    /\ pc' = "fix_publish"
    /\ UNCHANGED <<findings, merged, exc, fwf, ai_calls, ai_failures, posts,
                   issue_sent, publish, dashVars, enrVars, envVars>>

\* create_github_issue, and the end of main()
FixPublish ==
    /\ pc = "fix_publish"
    /\ IF ~gh_token
       THEN /\ publish' = "skipped"
            /\ UNCHANGED <<posts, issue_sent, report_file, disk>>
       ELSE \E reply \in {"created", "http_error", "bad_response"} :
            /\ posts' = posts + 1
            /\ issue_sent' = IssueBody(fwf)
            /\ IF reply = "created"
               THEN publish' = "created" /\ UNCHANGED <<report_file, disk>>
               ELSE /\ publish' = "fallback"
                    /\ report_file' = FallbackWrite(IssueBody(fwf), report_file)
                    /\ disk' = WriteFile(disk, "ai-fix-report.md")
    /\ pc' = "fix_done"
    /\ UNCHANGED <<findings, merged, exc, fwf, ai_calls, ai_failures,
                   dashVars, enrVars, envVars>>

(***************************************************************************)
(* generate-report.py                                                      *)
(***************************************************************************)
DashSast ==
    /\ pc = "dash_sast"
    /\ Block(RunLoop(DashSastOuts(LoadResults(reports.sast))), "dash_sca")

DashSca ==
    /\ pc = "dash_sca"
    /\ Block(RunLoop(DashScaOuts(LoadResults(reports.sca))), "dash_dast")

DashDast ==
    /\ pc = "dash_dast"
    /\ Block(RunLoop(DashDastOuts(LoadResults(reports.dast))), "dash_iac")

DashIac ==
    /\ pc = "dash_iac"
    /\ Block(RunLoop(DashIacOuts(LoadResults(reports.iac))), "dash_sort")

DashSort ==
    /\ pc = "dash_sort"
    /\ merged' = findings
    /\ findings' = SortBySeverity(findings)
    /\ pc' = "dash_enroll"
    /\ UNCHANGED <<exc, fixVars, dashVars, enrVars, envVars, disk>>

\* load_enrollment, update_enrollment and the json.dump of the result
Enroll(env) ==
    /\ prev_scans' = enrollment.scans
    /\ last_run' = Snapshot(env, clock)
    /\ enrollment' = update_enrollment(enrollment, env, clock)
    /\ clock' = clock + 1
    /\ calls' = calls + 1
    /\ runs_by' = [runs_by EXCEPT ![env.actor] = @ + 1]

DashEnroll ==
    /\ pc = "dash_enroll"
    /\ \E env \in RunEnvs : Enroll(env)
    /\ disk' = WriteFile(disk, "enrollment-tracking.json")
    /\ pc' = "dash_render"
    /\ UNCHANGED <<findings, merged, exc, fixVars, dashVars, envVars>>

DashRender ==
    /\ pc = "dash_render"
    /\ rendered' = RenderFindings(findings)
    /\ disk' = WriteFile(disk, "security-dashboard.html")
    /\ pc' = "dash_summary"
    /\ UNCHANGED <<findings, merged, exc, fixVars, summary_file, enrVars, envVars>>

DashSummary ==
    /\ pc = "dash_summary"
    /\ summary_file' = TRUE
    /\ disk' = WriteFile(disk, "security-summary.md")
    /\ pc' = "dash_done"
    /\ UNCHANGED <<findings, merged, exc, fixVars, rendered, enrVars, envVars>>

\* the enrollment step of one more run
EnrollRun ==
    /\ pc = "enroll"
    /\ calls < MaxRuns
    /\ \E env \in RunEnvs : Enroll(env)
    /\ disk' = WriteFile(Untouched, "enrollment-tracking.json")
    /\ UNCHANGED <<pc, findings, merged, exc, fixVars, dashVars, envVars>>

\* the statements of the two scripts
Run ==
    \/ FixMain \/ FixSast \/ FixSca \/ FixIac \/ FixDast \/ FixReturn
    \/ FixGenerate \/ FixSave \/ FixPublish
    \/ DashSast \/ DashSca \/ DashDast \/ DashIac \/ DashSort
    \/ DashEnroll \/ DashRender \/ DashSummary
    \/ EnrollRun

\* The file a statement is about to write, if it writes one.  The fallback
\* write of create_github_issue follows the request, so it needs the token.
WritesAt(at) ==
    IF at = "fix_save" \/ (at = "fix_publish" /\ gh_token) THEN {"ai-fix-report.md"}
    ELSE IF at \in {"dash_enroll", "enroll"} THEN {"enrollment-tracking.json"}
    ELSE IF at = "dash_render" THEN {"security-dashboard.html"}
    ELSE IF at = "dash_summary" THEN {"security-summary.md"}
    ELSE {}

Running == pc \notin {"fix_done", "dash_done", "raised", "crashed"}

\* the process is killed between two statements
Crash ==
    /\ Running
    /\ pc' = "crashed"
    /\ disk' = IF pc = "enroll" THEN Untouched ELSE disk
    /\ UNCHANGED <<findings, merged, exc, fixVars, dashVars, enrVars, envVars>>

\* The process is killed, or the write raises, inside a with open(f, "w")
\* block.  In create_github_issue the request has been sent by then.
CrashWriting ==
    /\ Running
    /\ \E f \in WritesAt(pc) :
        disk' = OpenForWrite(IF pc = "enroll" THEN Untouched ELSE disk, f)
    /\ pc' = "crashed"
    /\ IF pc = "fix_publish"
       THEN /\ posts' = posts + 1
            /\ issue_sent' = IssueBody(fwf)
            /\ UNCHANGED <<fwf, ai_calls, ai_failures, publish, report_file>>
       ELSE UNCHANGED fixVars
    /\ UNCHANGED <<findings, merged, exc, dashVars, enrVars, envVars>>

Next == Run \/ Crash \/ CrashWriting

Spec == Init /\ [][Next]_vars

(***************************************************************************)
(* Vocabulary of the properties                                            *)
(***************************************************************************)
FixCollecting == pc \in {"fix_sast", "fix_sca", "fix_iac", "fix_dast", "fix_return"}
FixReturned   == pc \in {"fix_generate", "fix_save", "fix_publish"}
                 \/ (pc = "fix_done" /\ merged # <<>>)
InFix         == pc \in {"fix_main", "fix_sast", "fix_sca", "fix_iac", "fix_dast",
                         "fix_return", "fix_generate", "fix_save", "fix_publish",
                         "fix_done"}
DashSorted    == pc \in {"dash_enroll", "dash_render", "dash_summary", "dash_done"}
InDash        == pc \in {"dash_sast", "dash_sca", "dash_dast", "dash_iac", "dash_sort",
                         "dash_enroll", "dash_render", "dash_summary", "dash_done"}

RankOf(fs, i) == SevRank(fs[i].severity)
RankOrdered(fs) == \A i, j \in DOMAIN fs : i < j => RankOf(fs, i) <= RankOf(fs, j)

SastRecs == LoadResults(reports.sast)
DastRows == LoadResults(reports.dast)
FindingOf(tools, i) ==
    {k \in DOMAIN findings : findings[k].tool \in tools /\ findings[k].src = <<0, i>>}

----------------------------------------------------------------------------
\* C1: in both flows every finding, as appended and as handed on to the
\* ranking step, the cap and the consumers, has a severity that is one of
\* CRITICAL, HIGH, MEDIUM, LOW.
C1_SeverityEnumerated ==
    /\ \A i \in DOMAIN findings : findings[i].severity \in Severities
    /\ \A i \in DOMAIN merged : merged[i].severity \in Severities
    /\ \A i \in DOMAIN rendered.rows : rendered.rows[i].severity \in Severities
    /\ \A i \in DOMAIN fwf : fwf[i].finding.severity \in Severities

\* a dynamic-scanner row with a lower-case severity has become a finding
C1_Witness ==
    \E k \in DOMAIN findings :
        /\ findings[k].tool = "Nuclei DAST"
        /\ DastRows[findings[k].src[2]].severity \in {"critical", "high"}

----------------------------------------------------------------------------
\* C2: once the dashboard flow has sorted, findings is ordered by the rank
\* CRITICAL < HIGH < MEDIUM < LOW < unrecognized, and findings of equal rank
\* stand in the order in which they were appended before the sort; the
\* renderer is handed that list.
C2_DashRankedStable ==
    /\ DashSorted =>
          /\ RankOrdered(findings)
          /\ Len(findings) = Len(merged)
          /\ \A i \in DOMAIN merged : \E k \in DOMAIN findings : findings[k] = merged[i]
          /\ LET pos == SubSeq([i \in DOMAIN merged |->
                              CHOOSE k \in DOMAIN findings : findings[k] = merged[i]],
                            1, Len(merged))
             IN  \A i, j \in DOMAIN merged :
                     i < j =>
                        /\ pos[i] # pos[j]
                        /\ RankOf(merged, i) = RankOf(merged, j) => pos[i] < pos[j]
    /\ rendered.branch # "none" => rendered.rows = findings /\ RankOrdered(rendered.rows)

\* the sort had to move a finding forward, and a tie between two tools was kept
C2_Witness ==
    /\ pc = "dash_done"
    /\ ~RankOrdered(merged)
    /\ \E i, j \in DOMAIN findings :
          /\ i < j
          /\ findings[i].severity = findings[j].severity
          /\ findings[i].tool # findings[j].tool

----------------------------------------------------------------------------
\* C3: the list collect_findings returns is ordered by the rank CRITICAL < HIGH
\* < MEDIUM < LOW (no HIGH finding before a CRITICAL one).
C3_FixRanked == FixReturned => RankOrdered(findings)

----------------------------------------------------------------------------
\* C4: the list collect_findings returns holds at most MAX_FIXES_PER_RUN = 10
\* findings, and a run makes at most 10 calls to the AI service.
C4_FixCapped ==
    /\ FixReturned \/ pc = "fix_done" => Len(findings) <= MAX_FIXES_PER_RUN
    /\ ai_calls <= MAX_FIXES_PER_RUN
    /\ Len(fwf) <= MAX_FIXES_PER_RUN

\* more than 10 findings were collected and the run ended after 10 AI calls
C4_Witness ==
    /\ pc = "fix_done"
    /\ Len(merged) > MAX_FIXES_PER_RUN
    /\ ai_calls = MAX_FIXES_PER_RUN

----------------------------------------------------------------------------
\* C5: extraction never raises: no run of either flow ends with an exception
\* out of an extraction loop.
C5_NeverRaises == pc # "raised" /\ exc = "none"

----------------------------------------------------------------------------
\* C6: when no report file exists, neither flow raises or stops short of its
\* end, the findings list stays empty, the dashboard shows the empty-state
\* branch with a count of zero, and the AI-fix flow ends without an AI call,
\* a report or an issue.
C6_NoReportsEmptyState ==
    NoReports /\ (InFix \/ InDash) =>
        /\ findings = <<>> /\ merged = <<>> /\ exc = "none"
        /\ pc \in {"fix_done", "dash_done"} \/ ENABLED Run
        /\ pc \notin {"fix_generate", "fix_save", "fix_publish"}
        /\ ai_calls = 0 /\ posts = 0 /\ fwf = <<>>
        /\ pc \in {"dash_summary", "dash_done"} =>
              rendered.branch = "empty" /\ rendered.badge = 0

\* a dashboard run without any report file has ended
C6_Witness == NoReports /\ pc = "dash_done" /\ rendered.branch = "empty"

----------------------------------------------------------------------------
\* C7: after an update_enrollment call scans holds at most 500 snapshots,
\* oldest first, the last one being the run just appended; an append to a
\* history of 500 drops exactly the oldest snapshot and keeps the other 499
\* in order, an append to a shorter history drops nothing.
C7_HistoryRetention ==
    calls > 0 =>
        LET scans == enrollment.scans
        IN  /\ Len(scans) <= KEEP_SCANS
            /\ \A i \in 1..(Len(scans) - 1) :
                  scans[i].timestamp < scans[i + 1].timestamp
            /\ scans[Len(scans)] = last_run
            /\ Len(prev_scans) = KEEP_SCANS =>
                  scans = Append(Tail(prev_scans), last_run)
            /\ Len(prev_scans) < KEEP_SCANS => scans = Append(prev_scans, last_run)

\* a run was appended to a history that held 500 snapshots
C7_Witness == calls > 0 /\ Len(prev_scans) = KEEP_SCANS

----------------------------------------------------------------------------
\* C8: after an update_enrollment call the stats are those of the retained
\* history: total_scans is its length, passed_scans the number of PASSED
\* snapshots, failed_scans the rest, and pass_rate (in tenths) the multiple
\* of 0.1 nearest to passed_scans / total_scans * 100, between 0 and 100, and
\* 0 when there is no scan.
C8_StatsRecomputed ==
    calls > 0 =>
        LET st    == enrollment.stats
            scans == enrollment.scans
        IN  /\ st.total_scans = Len(scans)
            /\ st.passed_scans =
                  Cardinality({i \in DOMAIN scans : scans[i].gate = "PASSED"})
            /\ st.failed_scans = st.total_scans - st.passed_scans
            /\ st.pass_rate \in 0..1000
            /\ st.total_scans = 0 => st.pass_rate = 0
            /\ 2 * (st.pass_rate * st.total_scans - 1000 * st.passed_scans)
                  \in (0 - st.total_scans)..st.total_scans

\* the exact rate lies above the midpoint of two tenths, so it was rounded up
C8_Witness ==
    /\ calls > 0
    /\ 2 * ((1000 * enrollment.stats.passed_scans) % enrollment.stats.total_scans)
          > enrollment.stats.total_scans

----------------------------------------------------------------------------
\* C9 as stated: once the static-analysis block of either flow has run, every
\* record it considered has a finding, of severity HIGH when the native
\* severity is "ERROR" and MEDIUM otherwise.
C9_Original ==
    /\ FixCollecting /\ pc # "fix_sast" =>
          \A i \in 1..Min(FIX_SAST_CAP, Len(SastRecs)) :
              \E k \in FindingOf({"Semgrep SAST"}, i) :
                  findings[k].severity =
                      IF SemgrepNative(SastRecs[i], NULL) = "ERROR" THEN "HIGH" ELSE "MEDIUM"
    /\ InDash /\ pc # "dash_sast" =>
          \A i \in 1..Min(DASH_SAST_CAP, Len(SastRecs)) :
              \E k \in FindingOf({"Semgrep"}, i) :
                  findings[k].severity =
                      IF SemgrepNative(SastRecs[i], NULL) = "ERROR" THEN "HIGH" ELSE "MEDIUM"

\* C9 as amended: a static-analysis finding has severity HIGH when the native
\* severity of its record is "ERROR"; in the dashboard flow every other
\* record among the first 20 becomes a MEDIUM finding, in the AI-fix flow a
\* record with any other native severity yields no finding.
C9_SastSeverity ==
    /\ \A k \in DOMAIN findings :
          /\ findings[k].tool = "Semgrep SAST" =>
                /\ SemgrepNative(SastRecs[findings[k].src[2]], NULL) = "ERROR"
                /\ findings[k].severity = "HIGH"
          /\ findings[k].tool = "Semgrep" =>
                findings[k].severity =
                    IF SemgrepNative(SastRecs[findings[k].src[2]], NULL) = "ERROR"
                    THEN "HIGH" ELSE "MEDIUM"
    /\ FixCollecting /\ pc # "fix_sast" =>
          \A i \in 1..Min(FIX_SAST_CAP, Len(SastRecs)) :
              SemgrepNative(SastRecs[i], NULL) = "ERROR"
                  <=> FindingOf({"Semgrep SAST"}, i) # {}
    /\ InDash /\ pc # "dash_sast" =>
          \A i \in 1..Min(DASH_SAST_CAP, Len(SastRecs)) :
              FindingOf({"Semgrep"}, i) # {}

\* the dashboard flow has normalized an ERROR record and a record of another
\* native severity
C9_Witness ==
    /\ pc = "dash_done"
    /\ \E i, j \in DOMAIN SastRecs :
          /\ SastRecs[i].severity = "ERROR" /\ SastRecs[j].severity = "WARNING"
          /\ FindingOf({"Semgrep"}, i) # {} /\ FindingOf({"Semgrep"}, j) # {}

----------------------------------------------------------------------------
\* C10: create_github_issue sends at most one request per run; when the
\* request fails, the body that was sent is written to ai-fix-report.md and
\* the function returns, so the run ends normally.
C10_PublishFallback ==
    /\ posts <= 1
    /\ publish # "none" => pc = "fix_done" /\ exc = "none"
    /\ publish = "fallback" =>
          /\ posts = 1
          /\ issue_sent = IssueBody(fwf)
          /\ report_file = issue_sent

\* the request failed in a run that had findings to publish
C10_Witness == publish = "fallback" /\ pc = "fix_done" /\ Len(fwf) > 1

(***************************************************************************)
(* C11: the AI service is called once per finding, in list order          *)
(***************************************************************************)
FixGenerated == pc \in {"fix_save", "fix_publish"} \/ (pc = "fix_done" /\ fwf # <<>>)

C12_CrashKeepsPrevious ==
    pc = "crashed" => \A f \in Artifacts : disk[f] # "new" => disk[f] = "previous"

(***************************************************************************)
(* C13: which findings the cap of the AI-fix flow drops                   *)
(***************************************************************************)
\* C13: in the AI-fix flow, when more than 10 findings were collected, every
\* finding the cap drops has a severity rank greater than or equal to the rank
\* of every finding it retains (no CRITICAL finding is dropped while a HIGH
\* finding is retained).
C13_CapDropsLowestRanks ==
    FixReturned /\ Len(merged) > MAX_FIXES_PER_RUN =>
        \A d \in (Len(findings) + 1)..Len(merged) : \A k \in DOMAIN findings :
            RankOf(merged, d) >= RankOf(findings, k)

(***************************************************************************)
(* C14: the order of equal-severity findings in the AI-fix list           *)
(***************************************************************************)
\* the blocks of collect_findings, in the order in which they append
FixToolOrder == <<"Semgrep SAST", "Trivy SCA", "Checkov IaC", "Nuclei DAST">>

\* static analysis, dependency, dynamic, infrastructure
StatedToolOrder == <<"Semgrep SAST", "Trivy SCA", "Nuclei DAST", "Checkov IaC">>

ToolPos(order, tool) == CHOOSE p \in DOMAIN order : order[p] = tool

\* record a comes before record b in its report file
RawBefore(a, b) == a[1] < b[1] \/ (a[1] = b[1] /\ a[2] < b[2])

\* equal-severity findings of fs lie in the tool order given, and within one
\* tool in the order of the raw records
TiesInOrder(fs, order) ==
    \A i, j \in DOMAIN fs :
        i < j /\ fs[i].severity = fs[j].severity =>
            \/ ToolPos(order, fs[i].tool) < ToolPos(order, fs[j].tool)
            \/ fs[i].tool = fs[j].tool /\ RawBefore(fs[i].src, fs[j].src)

\* C14 as stated: in the list of the AI-fix flow, findings of equal severity
\* appear in the tool order static analysis, dependency scanner, dynamic
\* scanner, infrastructure scanner, and within one tool in raw-record order.
C14_Original ==
    /\ FixCollecting \/ FixReturned => TiesInOrder(findings, StatedToolOrder)
    /\ FixReturned => TiesInOrder(merged, StatedToolOrder)

\* C14, amended: in the list of the AI-fix flow, findings of equal severity
\* appear in the tool order static analysis, dependency scanner,
\* infrastructure scanner, dynamic scanner (a CRITICAL infrastructure finding
\* precedes a CRITICAL dynamic finding), and within one tool in raw-record
\* order; this holds of the list as collected and of the list as returned.
C14_FixTieOrder ==
    /\ FixCollecting \/ FixReturned => TiesInOrder(findings, FixToolOrder)
    /\ FixReturned => TiesInOrder(merged, FixToolOrder)

\* a run returned a CRITICAL infrastructure finding ahead of a CRITICAL
\* dynamic one, and two findings of one tool
C14_Witness ==
    /\ pc = "fix_done" /\ FixReturned
    /\ \E i, j \in DOMAIN findings :
        /\ 1 < i /\ i < j
        /\ findings[i - 1].tool = findings[i].tool
        /\ findings[i].tool = "Checkov IaC"  /\ findings[i].severity = "CRITICAL"
        /\ findings[j].tool = "Nuclei DAST"  /\ findings[j].severity = "CRITICAL"

(***************************************************************************)
(* C15: the tools whose findings the dashboard list holds                 *)
(***************************************************************************)
IacRecs == LoadResults(reports.iac)

\* C15 as stated: the ranked list the dashboard flow hands to the renderer
\* holds static-analysis and dependency-scanner findings only, never a
\* dynamic-scanner or an infrastructure-scanner finding.
C15_Original ==
    /\ InDash => \A k \in DOMAIN findings : findings[k].tool \in {"Semgrep", "Trivy"}
    /\ \A k \in DOMAIN rendered.rows : rendered.rows[k].tool \in {"Semgrep", "Trivy"}

\* C15, amended: the ranked list the dashboard flow hands to the renderer
\* holds the findings of all four tools.  Its elements are static-analysis,
\* dependency-scanner, dynamic-scanner and infrastructure-scanner findings,
\* and each of the first 10 dynamic-scanner rows of severity critical, high
\* or medium and each of the first 10 failed infrastructure checks of
\* severity CRITICAL or HIGH is an element of the list.
C15_DashAllTools ==
    /\ InDash => \A k \in DOMAIN findings :
          findings[k].tool \in {"Semgrep", "Trivy", "Nuclei", "Checkov"}
    /\ DashSorted =>
          /\ \A i \in 1..Min(Len(DastRows), DASH_DAST_CAP) :
                DastRows[i].severity \in {"critical", "high", "medium", "HIGH", "Critical"}
                    => \E k \in DOMAIN findings :
                          findings[k].tool = "Nuclei" /\ findings[k].src = <<0, i>>
          /\ \A i \in 1..Min(Len(IacRecs), DASH_IAC_CAP) :
                IacRecs[i].severity \in {"CRITICAL", "HIGH"}
                    => \E k \in DOMAIN findings :
                          findings[k].tool = "Checkov" /\ findings[k].src = <<0, i>>
    /\ rendered.branch # "none" => rendered.rows = findings

\* a dashboard was rendered whose table holds a dynamic-scanner row and an
\* infrastructure-scanner row
C15_Witness ==
    /\ pc = "dash_done" /\ rendered.branch = "table"
    /\ \E i, j \in DOMAIN rendered.rows :
        rendered.rows[i].tool = "Nuclei" /\ rendered.rows[j].tool = "Checkov"

(***************************************************************************)
(* C16: which dynamic-scanner rows become findings                        *)
(***************************************************************************)
\* the AI-fix flow is past collect_findings, which did not raise
FixCollected == pc = "fix_return" \/ (api_key /\ pc \in {"fix_generate", "fix_save",
                                                         "fix_publish", "fix_done"})
\* the list collect_findings built, before the cap
FixPreCap == IF pc = "fix_return" THEN findings ELSE merged

\* the dashboard flow is past its four extraction blocks, none of which raised
DashCollected == pc \in {"dash_sort"} \/ DashSorted

\* the Nuclei findings of list fs are those of rows 1..cap that satisfy
\* kept, each once and with the upper-cased severity of its row
DastExtracted(fs, tool, cap, kept(_)) ==
    /\ \A k \in DOMAIN fs : fs[k].tool = tool =>
          /\ fs[k].src[1] = 0 /\ fs[k].src[2] \in 1..Min(Len(DastRows), cap)
          /\ kept(DastRows[fs[k].src[2]])
          /\ fs[k].severity = Upper(DastRows[fs[k].src[2]].severity)
          /\ \A l \in DOMAIN fs : fs[l].tool = tool /\ fs[l].src = fs[k].src => l = k
    /\ \A i \in 1..Min(Len(DastRows), cap) :
          kept(DastRows[i]) => \E k \in DOMAIN fs : fs[k].tool = tool /\ fs[k].src = <<0, i>>

\* severity equals "critical" or "high", compared case-insensitively
KeptAnyCase(r) == r.severity # NULL /\ Upper(r.severity) \in {"CRITICAL", "HIGH"}
\* severity is exactly "critical" or "high"
KeptLowerCase(r) == r.severity \in {"critical", "high"}
\* severity is critical, high or medium, compared case-insensitively
KeptToMedium(r) == r.severity # NULL /\ Upper(r.severity) \in {"CRITICAL", "HIGH", "MEDIUM"}

\* C16 as stated: dynamic-scanner extraction considers the first 3 rows
\* (AI-fix flow) or the first 10 rows (dashboard flow) and keeps a row if and
\* only if its severity is critical or high compared case-insensitively,
\* emitting the severity in upper case.
C16_Original ==
    /\ FixCollected =>
          DastExtracted(FixPreCap, "Nuclei DAST", FIX_DAST_CAP, KeptAnyCase)
    /\ DashCollected =>
          DastExtracted(findings, "Nuclei", DASH_DAST_CAP, KeptAnyCase)

\* C16, amended: dynamic-scanner extraction considers the first 3 rows
\* (AI-fix flow) or the first 10 rows (dashboard flow).  The AI-fix flow keeps
\* a row if and only if its severity is exactly the lower-case string
\* "critical" or "high" ("HIGH" and "Critical" are dropped); the dashboard
\* flow keeps a row if and only if its severity, compared case-insensitively,
\* is critical, high or medium.  Both emit the severity in upper case.
C16_DastExtraction ==
    /\ FixCollected =>
          DastExtracted(FixPreCap, "Nuclei DAST", FIX_DAST_CAP, KeptLowerCase)
    /\ DashCollected =>
          DastExtracted(findings, "Nuclei", DASH_DAST_CAP, KeptToMedium)

\* the AI-fix flow ended after it dropped an upper-case or mixed-case row and
\* kept a lower-case one
C16_Witness ==
    /\ pc = "fix_done" /\ FixCollected
    /\ \E i, j \in 1..Min(Len(DastRows), FIX_DAST_CAP) :
        /\ DastRows[i].severity \in {"HIGH", "Critical"}
        /\ \A k \in DOMAIN merged : merged[k].src = <<0, i>> => merged[k].tool # "Nuclei DAST"
        /\ DastRows[j].severity = "high"
        /\ \E k \in DOMAIN merged : merged[k].tool = "Nuclei DAST" /\ merged[k].src = <<0, j>>

(***************************************************************************)
(* C17: which vulnerabilities of which targets become findings            *)
(***************************************************************************)
ScaResults == LoadResults(reports.sca)

\* the vulnerabilities extraction considers: the first vulnCap of each of the
\* first targetCap targets
ScaConsidered(targetCap, vulnCap) ==
    { <<t, i>> \in (1..Min(Len(ScaResults), targetCap)) \X (1..vulnCap) :
          i <= Len(ScaResults[t].Vulnerabilities) }

\* the dependency findings of list fs are the considered vulnerabilities of
\* severity CRITICAL or HIGH, each once and with its own severity
ScaExtracted(fs, tool, targetCap, vulnCap) ==
    /\ \A k \in DOMAIN fs : fs[k].tool = tool =>
          /\ fs[k].src \in ScaConsidered(targetCap, vulnCap)
          /\ fs[k].severity =
                ScaResults[fs[k].src[1]].Vulnerabilities[fs[k].src[2]].Severity
          /\ fs[k].severity \in {"CRITICAL", "HIGH"}
          /\ \A l \in DOMAIN fs : fs[l].tool = tool /\ fs[l].src = fs[k].src => l = k
    /\ \A c \in ScaConsidered(targetCap, vulnCap) :
          ScaResults[c[1]].Vulnerabilities[c[2]].Severity \in {"CRITICAL", "HIGH"}
              => \E k \in DOMAIN fs : fs[k].tool = tool /\ fs[k].src = c

\* C17 as stated: dependency-scanner extraction iterates over every target of
\* the report and, within each target, considers its first 3 vulnerabilities
\* (AI-fix flow) or first 10 (dashboard flow), keeping exactly those of
\* severity CRITICAL or HIGH, whatever the target's position in the report.
C17_Original ==
    /\ FixCollected =>
          ScaExtracted(FixPreCap, "Trivy SCA", Len(ScaResults), FIX_SCA_VULN_CAP)
    /\ DashCollected =>
          ScaExtracted(findings, "Trivy", Len(ScaResults), DASH_SCA_VULN_CAP)

\* C17, amended: the dashboard flow iterates over every target of the report,
\* the AI-fix flow over the first 3 targets only; within each target they
\* iterate over, the flows consider its first 3 (AI-fix flow) or first 10
\* (dashboard flow) vulnerabilities and keep exactly those of severity
\* CRITICAL or HIGH.  A vulnerability of a fourth or later target is never
\* appended in the AI-fix flow.
C17_ScaExtraction ==
    /\ FixCollected =>
          ScaExtracted(FixPreCap, "Trivy SCA", FIX_SCA_TARGET_CAP, FIX_SCA_VULN_CAP)
    /\ DashCollected =>
          ScaExtracted(findings, "Trivy", Len(ScaResults), DASH_SCA_VULN_CAP)

\* the AI-fix flow ended on a report whose fourth target opens with a
\* CRITICAL vulnerability: the third target gave findings, the fourth none
C17_Witness ==
    /\ pc = "fix_done" /\ FixCollected
    /\ Len(ScaResults) > FIX_SCA_TARGET_CAP
    /\ ScaResults[FIX_SCA_TARGET_CAP + 1].Vulnerabilities # <<>>
    /\ ScaResults[FIX_SCA_TARGET_CAP + 1].Vulnerabilities[1].Severity = "CRITICAL"
    /\ \E k \in DOMAIN merged :
          merged[k].tool = "Trivy SCA" /\ merged[k].src[1] = FIX_SCA_TARGET_CAP
    /\ \A k \in DOMAIN merged :
          merged[k].tool = "Trivy SCA" => merged[k].src[1] <= FIX_SCA_TARGET_CAP

(***************************************************************************)
(* C18: who is enrolled, and what scan_count counts                       *)
(***************************************************************************)
\* the actors other than "unknown" that have made a run since the empty store
ActorsSeen == {a \in Actors \ {"unknown"} : runs_by[a] > 0}

\* the retained snapshots of actor a
RetainedBy(a) == {i \in DOMAIN enrollment.scans : enrollment.scans[i].actor = a}

====
